---- MODULE Spec2Model ----
(***************************************************************************)
(* A model of vic: the command `run` (src/vic/__init__.py) with its two    *)
(* steps dat_to_csv and assemble_metadata, and Device.get_components       *)
(* (src/vic/deviceconfig.py).                                              *)
(*                                                                         *)
(* Python's assert statements are modelled as executed (the interpreter    *)
(* is not started with -O).  Results of calls into collaborators that are  *)
(* not part of the sources (the converter, HSDatalog, os.listdir, the      *)
(* pydantic models of vic.models and vic.acquisitioninfo) are inputs drawn *)
(* at the step that makes the call.                                        *)
(***************************************************************************)
EXTENDS Integers, Sequences, FiniteSets, TLC

\* ------------------------------------------------------------------ bounds
MaxFiles == 2
MaxRanges == 2
MaxEntries == 2

\* ------------------------------------------------------- program constants
ExpectedIdLength == 56
ExpectedIdPadding == 4

\* --------------------------------------------------------------- universes
Labels == {"walk", "run"}
RootNames == Labels \cup {"misc"}
\* The start and end time of the i-th reconstructed range.
TimePairs == <<<<0, 10>>, <<20, 25>>, <<30, 45>>, <<50, 55>>>>
Contents == {"c1", "c2", "c3"}
ListNames == {"a.csv", "b.csv", "p.csv", "n.txt"}
AllNames == ListNames \cup {"q.csv"}
Absent == "absent"

\* The size of a file's content in read buffers (DIGEST_READ_BUFFER_LENGTH
\* bytes each): c1 is an empty file.
NumChunks(c) == CASE c = "c1" -> 0 [] c = "c2" -> 1 [] OTHER -> 2

\* The first 8 characters of the lower-cased base32 text of the sha256 of a
\* content.  c1 and c2 are two contents whose identifiers share the prefix.
Prefix8(c) == IF c \in {"c1", "c2"} THEN "p" ELSE "q"

VARIABLES
    pc, error, completed,
    temp_in, temp_out, output,
    tags, subfolders, tag_ranges,
    sub_idx, file_idx, listings, tree,
    digest, file_id, renamed,
    data_items, manifest,
    component_data, filter_disabled, components, dpc

runVars == <<pc, error, completed, temp_in, temp_out, output>>
asmVars == <<tags, subfolders, tag_ranges, sub_idx, file_idx, listings,
             tree, digest, file_id, renamed, data_items, manifest>>
devVars == <<component_data, filter_disabled, components, dpc>>
vars == <<runVars, asmVars, devVars>>

\* ----------------------------------------------------------------- helpers
SeqsUpTo(S, n) == UNION {[1..k -> S] : k \in 0..n}
IsInjective(s, key(_)) ==
    \A i, j \in 1..Len(s) : key(s[i]) = key(s[j]) => i = j
Range(s) == {s[i] : i \in 1..Len(s)}

\* ------------------------------------------------------------ base32, ids
\* base64.b32encode: every 5 bytes (the last group padded) give 8 characters.
B32Length(n) == 8 * ((n + 4) \div 5)
\* base64.b32encode: the number of trailing '=' for a last group of n % 5.
B32Padding(n) ==
    CASE n % 5 = 0 -> 0 [] n % 5 = 1 -> 6 [] n % 5 = 2 -> 4
      [] n % 5 = 3 -> 3 [] OTHER -> 1

\* hashlib.sha256().digest_size
DigestSize == 32
\* file_id = b32encode(digest.digest()).decode("utf-8").lower(): the text of
\* the digest of the bytes fed to the digest (chunks buffers of content c).
FileIdOf(d) ==
    [content |-> d.content, chunks |-> d.chunks,
     length |-> B32Length(DigestSize), padding |-> B32Padding(DigestSize)]

\* assert len(file_id) == 56; assert file_id.endswith("====")
IdIsValid(id) == id.length = ExpectedIdLength /\ id.padding = ExpectedIdPadding

\* file_name = f"{file_id[:8]}.{ext}"
FileName(id) == IF Prefix8(id.content) = "p" THEN "p.csv" ELSE "q.csv"

NoDigest == [content |-> "none", chunks |-> 0, eof |-> FALSE]
NoId == [content |-> "none", chunks |-> 0, length |-> 0, padding |-> 0]

NoManifest == [written |-> "no", classes |-> {}, data |-> <<>>]

\* ------------------------------------------------------------------- run
\* with-statement exit of tempfile.TemporaryDirectory: cleanup() whether or
\* not the body raised.
ExitOnSuccessOnly(dir, exc) ==
    IF dir = "exists" /\ exc = "none" THEN "removed" ELSE dir
ExitTemporaryDirectory(dir, exc) == IF dir = "exists" THEN "removed" ELSE dir

\* sp.run(..., check=True): a non-zero exit status raises CalledProcessError.
SubprocessRunUnchecked(returncode) == "none"
SubprocessRun(returncode) ==
    IF returncode # 0 THEN "CalledProcessError" ELSE "none"

\* A statement of the with-body raised exc: the body is left.
Raise(exc) == /\ pc' = "exit_with"
              /\ error' = exc

Init ==
    /\ pc = "start"
    /\ error = "none"
    /\ completed = {}
    /\ temp_in = "none"
    /\ temp_out = "none"
    /\ output = "untouched"
    /\ tags = {}
    /\ subfolders = <<>>
    /\ tag_ranges = <<>>
    /\ sub_idx = 0
    /\ file_idx = 0
    /\ listings = <<>>
    /\ tree = <<>>
    /\ digest = NoDigest
    /\ file_id = NoId
    /\ renamed = {}
    /\ data_items = <<>>
    /\ manifest = NoManifest
    /\ component_data = <<>>
    /\ filter_disabled = TRUE
    /\ components = <<>>
    /\ dpc = "idle"

\* Lines 49-76: the checks of the input and output paths.
CheckPaths ==
    /\ pc = "start"
    /\ \E input_exists, input_is_dir \in BOOLEAN :
       \E out \in {"dir", "file", "absent", "no_parent"} :
          IF input_exists /\ input_is_dir /\ out \in {"dir", "absent"}
          THEN pc' = "mktemp_in" /\ error' = error
          ELSE pc' = "raised" /\ error' = "Exception"
    /\ UNCHANGED <<completed, temp_in, temp_out, output, asmVars, devVars>>

\* Line 79: tmp.TemporaryDirectory() as temp_dir_in.
MakeTempIn ==
    /\ pc = "mktemp_in"
    /\ \/ /\ temp_in' = "exists"
          /\ pc' = "mktemp_out"
          /\ error' = error
       \/ /\ temp_in' = temp_in
          /\ pc' = "raised"
          /\ error' = "OSError"
    /\ UNCHANGED <<completed, temp_out, output, asmVars, devVars>>

\* Line 80: tmp.TemporaryDirectory() as temp_dir_out; a failure leaves the
\* with-statement through the exit of temp_dir_in.
MakeTempOut ==
    /\ pc = "mktemp_out"
    /\ \/ /\ temp_out' = "exists"
          /\ pc' = "stage"
          /\ error' = error
       \/ /\ temp_out' = temp_out
          /\ Raise("OSError")
    /\ UNCHANGED <<completed, temp_in, output, asmVars, devVars>>

\* Line 94: shutil.copytree(input_path, temp_path_in).
Stage ==
    /\ pc = "stage"
    /\ \/ /\ pc' = "dat_to_csv"
          /\ error' = error
          /\ completed' = completed \cup {"stage"}
       \/ /\ Raise("OSError")
          /\ completed' = completed
    /\ UNCHANGED <<temp_in, temp_out, output, asmVars, devVars>>

\* Lines 96, 227-249: the converter subprocess.
DatToCsv ==
    /\ pc = "dat_to_csv"
    /\ \E returncode \in {0, 1} :
         LET exc == SubprocessRun(returncode) IN
         /\ IF exc = "none"
            THEN pc' = "load_metadata" /\ error' = error
            ELSE Raise(exc)
         /\ completed' = IF returncode = 0
                         THEN completed \cup {"dat_to_csv"} ELSE completed
    /\ UNCHANGED <<temp_in, temp_out, output, asmVars, devVars>>

\* ------------------------------------------------------ assemble_metadata
RootEntries == [name : RootNames, is_dir : BOOLEAN]
\* What listdir(temp_path_out) can return: distinct names, in any order.
RootListings ==
    {s \in SeqsUpTo(RootEntries, Cardinality(RootNames)) :
        IsInjective(s, LAMBDA e : e.name)}

FileEntries == [name : ListNames, content : Contents]
\* What listdir(subfolder) can return: distinct names, in any order.
FileListings ==
    {s \in SeqsUpTo(FileEntries, MaxFiles) : IsInjective(s, LAMBDA e : e.name)}

\* What TagRange.from_tag_events can return: ranges in the order they were
\* closed, each with a label and its times.
RangeSeqs ==
    {[i \in 1..Len(ls) |->
        [label |-> ls[i], start_time |-> TimePairs[i][1],
         end_time |-> TimePairs[i][2]]] : ls \in SeqsUpTo(Labels, MaxRanges)}

\* The directory a listing describes.
DirOf(listing) ==
    [n \in AllNames |->
        IF \E i \in 1..Len(listing) : listing[i].name = n
        THEN (CHOOSE e \in Range(listing) : e.name = n).content
        ELSE Absent]

\* Lines 147-148.
SubsetOfTags(subs, t) ==
    /\ \A i \in 1..Len(subs) : subs[i].is_dir
    /\ {subs[i].name : i \in 1..Len(subs)} \subseteq t
SubfoldersMatchTags(subs, t) ==
    /\ \A i \in 1..Len(subs) : subs[i].is_dir
    /\ {subs[i].name : i \in 1..Len(subs)} = t

\* Lines 160-164.
OneTagRanges(name) == SelectSeq(tag_ranges, LAMBDA r : r.label = name)

\* Line 170.
EndsWithCsv(name) == name # "n.txt"
AllCsv(fs) == \A i \in 1..Len(fs) : EndsWithCsv(fs[i].name)

\* Line 171.
AtLeastAsManyFiles(fs, ranges) == Len(fs) >= Len(ranges)
CountsMatch(fs, ranges) == Len(fs) = Len(ranges)

Min(a, b) == IF a < b THEN a ELSE b
\* Line 173: zip(one_tag_ranges, files).
ZipReversed(ranges, fs) ==
    [i \in 1..Min(Len(ranges), Len(fs)) |->
        [tag_range |-> ranges[i], file |-> fs[Min(Len(ranges), Len(fs)) + 1 - i]]]
Zip(ranges, fs) ==
    [i \in 1..Min(Len(ranges), Len(fs)) |->
        [tag_range |-> ranges[i], file |-> fs[i]]]

\* The loop variables of the iteration in progress.
Subfolder == subfolders[sub_idx]
Files == listings[sub_idx]
Pairs == Zip(OneTagRanges(Subfolder.name), Files)
File == Pairs[file_idx].file
TagRange == Pairs[file_idx].tag_range

\* Lines 109-139: acquisition info, source, device configuration and
\* components are read and validated.
LoadMetadata ==
    /\ pc = "load_metadata"
    /\ \/ /\ pc' = "list_subfolders"
          /\ error' = error
       \/ Raise("ValidationError")
    /\ UNCHANGED <<completed, temp_in, temp_out, output, asmVars, devVars>>

\* Lines 141-148.
ListSubfolders ==
    /\ pc = "list_subfolders"
    /\ \E t \in SUBSET Labels, ls \in RootListings :
         /\ tags' = t
         /\ subfolders' = ls
         /\ IF SubfoldersMatchTags(ls, t)
            THEN pc' = "tag_ranges" /\ error' = error
            ELSE Raise("AssertionError")
    /\ UNCHANGED <<completed, temp_in, temp_out, output, tag_ranges, sub_idx,
                   file_idx, listings, tree, digest, file_id, renamed,
                   data_items, manifest, devVars>>

\* Line 154: TagRange.from_tag_events.  Every reconstructed range has a
\* label of hsd.get_time_tags(), both being read from the same tag events.
ComputeTagRanges ==
    /\ pc = "tag_ranges"
    /\ \/ \E tr \in RangeSeqs :
            /\ \A i \in 1..Len(tr) : tr[i].label \in tags
            /\ tag_ranges' = tr
            /\ pc' = "next_subfolder"
            /\ error' = error
       \/ /\ Raise("ValueError")
          /\ tag_ranges' = tag_ranges
    /\ UNCHANGED <<completed, temp_in, temp_out, output, tags, subfolders,
                   sub_idx, file_idx, listings, tree, digest, file_id, renamed,
                   data_items, manifest, devVars>>

\* Lines 158-171: the next subfolder is listed and checked, or the loop ends.
NextSubfolder ==
    /\ pc = "next_subfolder"
    /\ IF sub_idx = Len(subfolders)
       THEN /\ pc' = "write_manifest"
            /\ UNCHANGED <<error, sub_idx, file_idx, listings, tree>>
       ELSE \E ls \in FileListings :
            /\ sub_idx' = sub_idx + 1
            /\ listings' = Append(listings, ls)
            /\ tree' = Append(tree, DirOf(ls))
            /\ file_idx' = 0
            /\ IF /\ AllCsv(ls)
                  /\ CountsMatch(ls, OneTagRanges(subfolders[sub_idx + 1].name))
               THEN pc' = "next_file" /\ error' = error
               ELSE Raise("AssertionError")
    /\ UNCHANGED <<completed, temp_in, temp_out, output, tags, subfolders,
                   tag_ranges, digest, file_id, renamed, data_items, manifest,
                   devVars>>

\* Lines 173-177: the next pair of the zip; the file is opened.
NextFile ==
    /\ pc = "next_file"
    /\ IF file_idx = Len(Pairs)
       THEN /\ pc' = "next_subfolder"
            /\ UNCHANGED <<error, file_idx, digest, file_id>>
       ELSE LET content == tree[sub_idx][Pairs[file_idx + 1].file.name] IN
            /\ file_idx' = file_idx + 1
            /\ file_id' = NoId
            /\ IF content = Absent
               THEN /\ Raise("FileNotFoundError")
                    /\ digest' = NoDigest
               ELSE /\ digest' = [content |-> content, chunks |-> 0, eof |-> FALSE]
                    /\ pc' = "read"
                    /\ error' = error
    /\ UNCHANGED <<completed, temp_in, temp_out, output, tags, subfolders,
                   tag_ranges, sub_idx, listings, tree, renamed, data_items,
                   manifest, devVars>>

\* Lines 178-180: file_handle.read(...) returns b"" at the end of the file.
ReadReturnsEmptyEarly(pos, content) == pos + 1 >= NumChunks(content)
ReadReturnsEmpty(pos, content) == pos >= NumChunks(content)

\* Lines 178-181: one turn of the read loop.
ReadChunk ==
    /\ pc = "read"
    /\ IF ReadReturnsEmpty(digest.chunks, digest.content)
       THEN /\ digest' = [digest EXCEPT !.eof = TRUE]
            /\ pc' = "encode"
       ELSE /\ digest' = [digest EXCEPT !.chunks = @ + 1]
            /\ pc' = pc
    /\ UNCHANGED <<error, completed, temp_in, temp_out, output, tags,
                   subfolders, tag_ranges, sub_idx, file_idx, listings, tree,
                   file_id, renamed, data_items, manifest, devVars>>

\* Line 183.
Encode ==
    /\ pc = "encode"
    /\ file_id' = FileIdOf(digest)
    /\ pc' = "validate_id"
    /\ UNCHANGED <<error, completed, temp_in, temp_out, output, tags,
                   subfolders, tag_ranges, sub_idx, file_idx, listings, tree,
                   digest, renamed, data_items, manifest, devVars>>

\* Lines 186-187.
ValidateId ==
    /\ pc = "validate_id"
    /\ IF IdIsValid(file_id)
       THEN pc' = "rename" /\ error' = error
       ELSE Raise("AssertionError")
    /\ UNCHANGED <<completed, temp_in, temp_out, output, asmVars, devVars>>

\* pathlib.Path.rename within one directory, where it succeeds.
RenameIn(dir, src, dst) ==
    IF src = dst THEN dir
    ELSE [dir EXCEPT ![dst] = dir[src], ![src] = Absent]

\* Lines 189-193.  Path.rename onto an existing file replaces it silently on
\* Unix and raises FileExistsError on Windows.
Rename ==
    /\ pc = "rename"
    /\ LET src == File.name
           dst == FileName(file_id)
       IN \/ /\ tree' = [tree EXCEPT ![sub_idx] = RenameIn(@, src, dst)]
             /\ renamed' = renamed \cup {<<sub_idx, file_idx>>}
             /\ pc' = "append"
             /\ error' = error
          \/ /\ src # dst
             /\ tree[sub_idx][dst] # Absent
             /\ Raise("FileExistsError")
             /\ UNCHANGED <<tree, renamed>>
    /\ UNCHANGED <<completed, temp_in, temp_out, output, tags, subfolders,
                   tag_ranges, sub_idx, file_idx, listings, digest, file_id,
                   data_items, manifest, devVars>>

\* Lines 195-210.  `listed` is not a field of the program's DataItem: it
\* records which entry of the listing the item was built from.
DataItem ==
    [class |-> TagRange.label,
     start_time |-> TagRange.start_time,
     end_time |-> TagRange.end_time,
     file |-> [id |-> file_id,
               relative_path |-> <<Subfolder.name, FileName(file_id)>>],
     listed |-> File.name]

\* Lines 195-212: DataItem.model_validate and the append.
AppendItem ==
    /\ pc = "append"
    /\ \/ /\ data_items' = Append(data_items, DataItem)
          /\ pc' = "next_file"
          /\ error' = error
       \/ /\ Raise("ValidationError")
          /\ data_items' = data_items
    /\ UNCHANGED <<completed, temp_in, temp_out, output, tags, subfolders,
                   tag_ranges, sub_idx, file_idx, listings, tree, digest,
                   file_id, renamed, manifest, devVars>>

\* Lines 214-224: the dataset is built and dataset-meta.json written.
WriteManifest ==
    /\ pc = "write_manifest"
    /\ \/ /\ manifest' = [written |-> "complete", classes |-> tags,
                           data |-> data_items]
          /\ completed' = completed \cup {"assemble_metadata"}
          /\ pc' = "final_copy"
          /\ error' = error
       \/ /\ Raise("ValidationError")
          /\ UNCHANGED <<manifest, completed>>
       \/ /\ manifest' = [manifest EXCEPT !.written = "partial"]
          /\ Raise("OSError")
          /\ completed' = completed
    /\ UNCHANGED <<temp_in, temp_out, output, tags, subfolders, tag_ranges,
                   sub_idx, file_idx, listings, tree, digest, file_id, renamed,
                   data_items, devVars>>

\* Line 100: shutil.copytree(temp_path_out, output_path); a failure part way
\* leaves what was copied before it.
FinalCopy ==
    /\ pc = "final_copy"
    /\ \/ /\ output' = "complete"
          /\ completed' = completed \cup {"copy"}
          /\ pc' = "exit_with"
          /\ error' = error
       \/ /\ output' \in {"untouched", "partial"}
          /\ Raise("OSError")
          /\ completed' = completed
    /\ UNCHANGED <<temp_in, temp_out, asmVars, devVars>>

\* Lines 78-81, 102: the with-statement is left, normally or by an exception.
ExitWith ==
    /\ pc = "exit_with"
    /\ temp_out' = ExitTemporaryDirectory(temp_out, error)
    /\ temp_in' = ExitTemporaryDirectory(temp_in, error)
    /\ pc' = IF error = "none" THEN "done" ELSE "raised"
    /\ UNCHANGED <<error, completed, output, asmVars, devVars>>

Next ==
    \/ CheckPaths
    \/ MakeTempIn
    \/ MakeTempOut
    \/ Stage
    \/ DatToCsv
    \/ LoadMetadata
    \/ ListSubfolders
    \/ ComputeTagRanges
    \/ NextSubfolder
    \/ NextFile
    \/ ReadChunk
    \/ Encode
    \/ ValidateId
    \/ Rename
    \/ AppendItem
    \/ WriteManifest
    \/ FinalCopy
    \/ ExitWith

Spec == Init /\ [][Next]_vars

\* ------------------------------------------------- Device.get_components
Keys == {"acc", "gyro"}
\* The raw attributes of one entry of the device configuration: whether it
\* has 'odr', its 'enable' value if any, whether it has the other required
\* fields of Component (dim stands for them), a 'name' it may already carry,
\* and its 'stream_id', which the generated inputs number by position.
RawAttrs ==
    [has_odr : BOOLEAN, enable : {"missing", "true", "false"},
     has_dim : BOOLEAN, name : {"none", "stale"}]
EntryKinds == [key : Keys, value : RawAttrs]

RECURSIVE Sum(_)
Sum(s) == IF s = <<>> THEN 0 ELSE Head(s) + Sum(Tail(s))
Shapes == {sh \in SeqsUpTo(1..MaxEntries, MaxEntries) : Sum(sh) <= MaxEntries}
Offset(sh, m) == Sum(SubSeq(sh, 1, m - 1))
\* The sequence of mappings of the given sizes holding the entries of flat.
Build(sh, flat) ==
    [m \in 1..Len(sh) |->
        [j \in 1..sh[m] |->
            LET e == flat[Offset(sh, m) + j] IN
            [key |-> e.key,
             value |-> [has_odr |-> e.value.has_odr, enable |-> e.value.enable,
                        has_dim |-> e.value.has_dim, name |-> e.value.name,
                        stream_id |-> Offset(sh, m) + j]]]]
\* Device.component_data: a sequence of mappings, the keys of one mapping
\* distinct, its items in their iteration order.
IsDeviceInput(d) == \A m \in 1..Len(d) : IsInjective(d[m], LAMBDA e : e.key)

\* Lines 31-36: the key is stored in the mapping itself.
name_mapping(key, mapping_value) == [mapping_value EXCEPT !.name = key]

\* Lines 39-42.
to_named_sequence_reversed(mapping) ==
    [i \in 1..Len(mapping) |->
        name_mapping(mapping[Len(mapping) + 1 - i].key,
                     mapping[Len(mapping) + 1 - i].value)]
to_named_sequence(mapping) ==
    [i \in 1..Len(mapping) |-> name_mapping(mapping[i].key, mapping[i].value)]

\* Line 60: "odr" in item and ((not filter_disabled) or item["enable"]);
\* item["enable"] of an item without 'enable' raises KeyError.
FilterIgnoringEnable(item, fd) == IF item.has_odr THEN "keep" ELSE "skip"
Filter(item, fd) ==
    IF ~item.has_odr THEN "skip"
    ELSE IF ~fd THEN "keep"
    ELSE CASE item.enable = "missing" -> "KeyError"
           [] item.enable = "true" -> "keep"
           [] OTHER -> "skip"

\* Lines 6-25: the fields of Component without a default are required.
ValidatesWithoutDim(item) ==
    item.has_odr /\ item.enable # "missing" /\ item.name # "none"
Validates(item) ==
    item.has_odr /\ item.enable # "missing" /\ item.has_dim /\ item.name # "none"

\* Line 57: Component.model_validate of an item that validates.
ModelValidate(item) ==
    [name |-> item.name, enable |-> (item.enable = "true"),
     stream_id |-> item.stream_id]

\* Lines 56-61: the generator is consumed mapping by mapping, item by item;
\* the first exception ends it.  reached is the last mapping named.
RECURSIVE Collect(_, _, _, _, _)
Collect(data, fd, m, j, acc) ==
    IF m > Len(data)
    THEN [status |-> "returned", error |-> "none", value |-> acc,
          reached |-> Len(data)]
    ELSE IF j > Len(data[m]) THEN Collect(data, fd, m + 1, 1, acc)
    ELSE LET item == to_named_sequence(data[m])[j]
             verdict == Filter(item, fd)
         IN CASE verdict = "skip" -> Collect(data, fd, m, j + 1, acc)
              [] verdict = "KeyError" ->
                   [status |-> "raised", error |-> "KeyError", value |-> <<>>,
                    reached |-> m]
              [] OTHER ->
                   IF Validates(item)
                   THEN Collect(data, fd, m, j + 1,
                                Append(acc, ModelValidate(item)))
                   ELSE [status |-> "raised", error |-> "ValidationError",
                         value |-> <<>>, reached |-> m]

\* name_mapping has written the key into every item of the mappings reached.
Named(data, reached) ==
    [m \in 1..Len(data) |->
        IF m > reached THEN data[m]
        ELSE [j \in 1..Len(data[m]) |->
                [key |-> data[m][j].key,
                 value |-> to_named_sequence(data[m])[j]]]]

\* Lines 52-61.
GetComponents ==
    /\ dpc = "idle"
    /\ LET r == Collect(component_data, filter_disabled, 1, 1, <<>>) IN
       /\ dpc' = r.status
       /\ components' = r.value
       /\ component_data' = Named(component_data, r.reached)
    /\ UNCHANGED <<filter_disabled, runVars, asmVars>>

InitDevice ==
    /\ pc = "start"
    /\ error = "none"
    /\ completed = {}
    /\ temp_in = "none"
    /\ temp_out = "none"
    /\ output = "untouched"
    /\ tags = {}
    /\ subfolders = <<>>
    /\ tag_ranges = <<>>
    /\ sub_idx = 0
    /\ file_idx = 0
    /\ listings = <<>>
    /\ tree = <<>>
    /\ digest = NoDigest
    /\ file_id = NoId
    /\ renamed = {}
    /\ data_items = <<>>
    /\ manifest = NoManifest
    /\ \E sh \in Shapes :
         \E flat \in [1..Sum(sh) -> EntryKinds] :
            /\ IsDeviceInput(Build(sh, flat))
            /\ component_data = Build(sh, flat)
    /\ filter_disabled \in BOOLEAN
    /\ components = <<>>
    /\ dpc = "idle"

NextDevice == GetComponents

SpecDevice == InitDevice /\ [][NextDevice]_vars

\* =================================================================== claims
Finished == pc \in {"done", "raised"}
Aborted == pc \in {"exit_with", "raised"} /\ error # "none"
Present(dir) == {n \in AllNames : dir[n] # Absent}
RootNamesListed == {subfolders[i].name : i \in 1..Len(subfolders)}
\* The subfolders listed so far whose file count differs from the number of
\* tag ranges of their label.
Mismatching ==
    {k \in 1..Len(listings) :
        Len(listings[k]) #
            Cardinality({i \in 1..Len(tag_ranges) :
                            tag_ranges[i].label = subfolders[k].name})}

\* C1: once a listed subfolder holds a number of files different from the
\* number of TagRanges of its label, the run is aborted with an error and
\* dataset-meta.json is not written, neither then nor in any later state,
\* whichever subfolder of the listing it is.
C1_CountMismatchAborts ==
    Mismatching # {} =>
        /\ Aborted
        /\ error = "AssertionError"
        /\ manifest.written = "no"
        /\ output = "untouched"

\* A run ended by a mismatch in the second subfolder, after the first one
\* was processed and its file renamed.
C1_Witness ==
    /\ pc = "raised"
    /\ Mismatching = {2}
    /\ Len(data_items) >= 1
    /\ renamed # {}

\* The number of DataItems built for the subfolders listed before the k-th.
ItemsBefore(k) ==
    Cardinality({i \in 1..Len(tag_ranges) :
                    \E j \in 1..(k - 1) : subfolders[j].name = tag_ranges[i].label})
\* The positions in tag_ranges of the ranges of a label, in order.
NthRangeOf(label, n) ==
    CHOOSE i \in 1..Len(tag_ranges) :
        /\ tag_ranges[i].label = label
        /\ Cardinality({j \in 1..i : tag_ranges[j].label = label}) = n

\* C2: a written manifest holds exactly one DataItem per TagRange; for every
\* subfolder, the item of the Nth TagRange of its label was built from the
\* Nth file of the subfolder's listing and carries that range's label,
\* start_time and end_time.
C2_OneItemPerPair ==
    manifest.written = "complete" =>
        /\ Len(manifest.data) = Len(tag_ranges)
        /\ \A k \in 1..Len(subfolders) :
             \A n \in 1..Len(listings[k]) :
                LET item == manifest.data[ItemsBefore(k) + n]
                    range == tag_ranges[NthRangeOf(subfolders[k].name, n)]
                IN /\ item.class = range.label
                   /\ item.start_time = range.start_time
                   /\ item.end_time = range.end_time
                   /\ item.listed = listings[k][n].name
                   /\ item.file.relative_path[1] = subfolders[k].name

\* One label "walk" with the ranges (0,10), (20,25) and two files.
C2_Witness ==
    /\ manifest.written = "complete"
    /\ tags = {"walk"}
    /\ Len(manifest.data) = 2
    /\ manifest.data[1].start_time = 0 /\ manifest.data[1].end_time = 10
    /\ manifest.data[2].start_time = 20 /\ manifest.data[2].end_time = 25
    /\ manifest.data[1].listed # manifest.data[2].listed

\* C5: whenever the entries listed in the converter's output directory are
\* not all directories, or their names are not the set of labels of the tag
\* events, assemble_metadata has failed and no file was listed, digested or
\* renamed and no manifest written.
C5_RootMismatchFailsFirst ==
    (RootNamesListed # tags \/ \E i \in 1..Len(subfolders) : ~subfolders[i].is_dir)
        => /\ Aborted
           /\ error = "AssertionError"
           /\ listings = <<>>
           /\ digest = NoDigest
           /\ file_id = NoId
           /\ renamed = {}
           /\ data_items = <<>>
           /\ manifest.written = "no"

\* A run ended by a label without its subfolder.
C5_Witness ==
    /\ pc = "raised"
    /\ tags = {"walk", "run"}
    /\ RootNamesListed = {"walk"}
    /\ \A i \in 1..Len(subfolders) : subfolders[i].is_dir

\* C6: a step that renames a file renames the file being processed, and is
\* taken only when that file was read to its end into the digest and the
\* encoded identifier of that digest has length 56 and 4 padding
\* characters; a file whose identifier failed the check is not renamed.
C6_RenameAfterDigest ==
    /\ [][renamed' # renamed =>
            /\ renamed' = renamed \cup {<<sub_idx, file_idx>>}
            /\ digest.eof
            /\ digest.content = tree[sub_idx][listings[sub_idx][file_idx].name]
            /\ digest.chunks = NumChunks(digest.content)
            /\ file_id.content = digest.content
            /\ file_id.chunks = digest.chunks
            /\ file_id.length = 56
            /\ file_id.padding = 4]_vars
    /\ []((file_id # NoId /\ (file_id.length # 56 \/ file_id.padding # 4))
            => <<sub_idx, file_idx>> \notin renamed)

\* A file of two read buffers was renamed.
C6_Witness ==
    /\ <<sub_idx, file_idx>> \in renamed
    /\ digest.chunks = 2
    /\ pc = "append"

\* C7: the output directory receives content only after staging, dat_to_csv
\* and assemble_metadata have all completed without error and the manifest
\* is written in full; a run that failed in any of them leaves it untouched.
C7_NoPartialSuccess ==
    output # "untouched" =>
        /\ {"stage", "dat_to_csv", "assemble_metadata"} \subseteq completed
        /\ manifest.written = "complete"
        /\ Mismatching = {}
        /\ RootNamesListed = tags

\* A run that failed in assemble_metadata after files were renamed.
C7_Witness ==
    /\ pc = "raised"
    /\ "dat_to_csv" \in completed
    /\ "assemble_metadata" \notin completed
    /\ renamed # {}
    /\ output = "untouched"

\* C8: when run has ended, normally or by an exception, neither temporary
\* directory exists.
C8_TempDirsRemoved ==
    Finished => temp_in # "exists" /\ temp_out # "exists"

\* A run that failed in the final copy, after both directories were made.
C8_Witness ==
    /\ pc = "raised"
    /\ "assemble_metadata" \in completed
    /\ "copy" \notin completed
    /\ temp_in = "removed"
    /\ temp_out = "removed"

\* C10: after a manifest is written every subfolder holds as many files as
\* were listed, the relative paths of the DataItems are pairwise distinct,
\* and each names a file holding the content digested for its item.
C10_NoFileLost ==
    manifest.written = "complete" =>
        /\ \A k \in 1..Len(listings) :
              Cardinality(Present(tree[k])) = Len(listings[k])
        /\ \A i, j \in 1..Len(manifest.data) :
              manifest.data[i].file.relative_path =
                  manifest.data[j].file.relative_path => i = j
        /\ \A i \in 1..Len(manifest.data) :
              \E k \in 1..Len(subfolders) :
                 /\ subfolders[k].name = manifest.data[i].file.relative_path[1]
                 /\ tree[k][manifest.data[i].file.relative_path[2]] =
                        manifest.data[i].file.id.content

\* ------------------------------------------------------------ the device
\* The entries of the input, in iteration order.
RECURSIVE Flatten(_)
Flatten(data) == IF data = <<>> THEN <<>> ELSE Head(data) \o Flatten(Tail(data))
Entries == Flatten(component_data)
EntryOf(component) ==
    CHOOSE e \in Range(Entries) : e.value.stream_id = component.stream_id
Passes(e) ==
    e.value.has_odr /\ (filter_disabled => e.value.enable = "true")

\* C3: every returned component comes from an entry that has 'odr' and, with
\* filter_disabled, whose 'enable' is not false, and is named by the key of
\* that entry; without filter_disabled every entry that has 'odr' is
\* returned.
C3_FilterAndName ==
    dpc = "returned" =>
        /\ \A k \in 1..Len(components) :
              /\ \E e \in Range(Entries) :
                    e.value.stream_id = components[k].stream_id
              /\ EntryOf(components[k]).value.has_odr
              /\ filter_disabled => EntryOf(components[k]).value.enable # "false"
              /\ filter_disabled => components[k].enable
              /\ components[k].name = EntryOf(components[k]).key
        /\ ~filter_disabled =>
              \A e \in Range(Entries) :
                 e.value.has_odr =>
                    \E k \in 1..Len(components) :
                       components[k].stream_id = e.value.stream_id

\* With the default filter, an entry without 'odr' and a disabled one were
\* left out and an enabled one returned under its key.
C3_Witness ==
    /\ dpc = "returned"
    /\ filter_disabled
    /\ Len(components) = 1
    /\ Len(Entries) = 2
    /\ \E e \in Range(Entries) : ~e.value.has_odr \/ e.value.enable = "false"

\* C4 as claimed: with the default filter, whatever the entries, the call
\* returns, and returns exactly the entries that validate as a Component and
\* are enabled.
C4_InvalidEntriesExcluded ==
    (dpc # "idle" /\ filter_disabled) =>
        /\ dpc = "returned"
        /\ {components[k].stream_id : k \in 1..Len(components)} =
              {e.value.stream_id :
                 e \in {x \in Range(Entries) :
                          /\ x.value.has_odr
                          /\ x.value.has_dim
                          /\ x.value.enable = "true"}}

\* The entries whose validation or whose filter raises.
Offending ==
    {e \in Range(Entries) :
        /\ e.value.has_odr
        /\ \/ e.value.enable = "missing"
           \/ Passes(e) /\ ~e.value.has_dim}

\* C4 as amended: the call raises, and returns no component, when some
\* entry has 'odr' and either lacks 'enable' or passes the filter and lacks
\* another required field; when it returns, it returns exactly the entries
\* that have 'odr' and pass the filter.
C4_InvalidEntryRaises ==
    dpc # "idle" =>
        /\ Offending # {} => dpc = "raised"
        /\ dpc = "raised" => components = <<>>
        /\ dpc = "returned" =>
              {components[k].stream_id : k \in 1..Len(components)} =
                 {e.value.stream_id : e \in {x \in Range(Entries) : Passes(x)}}

\* A valid enabled entry followed by an entry with 'odr' and 'enable' but
\* without the other required fields: the call raised.
C4_Witness ==
    /\ dpc = "raised"
    /\ filter_disabled
    /\ Len(Entries) = 2
    /\ Entries[1].value.has_odr /\ Entries[1].value.has_dim
    /\ Entries[1].value.enable = "true"
    /\ Entries[2].value.has_odr /\ ~Entries[2].value.has_dim
    /\ Entries[2].value.enable = "true"

\* C9: the returned components are in the iteration order of the input:
\* of two returned components the earlier comes from the earlier entry.
C9_OrderPreserved ==
    dpc = "returned" =>
        \A i, j \in 1..Len(components) :
           i < j => components[i].stream_id < components[j].stream_id

\* Two entries of one mapping were both returned.
C9_Witness ==
    /\ dpc = "returned"
    /\ Len(components) = 2
    /\ Len(component_data) = 1

====
